---- MODULE Spec2Model ----
(***************************************************************************)
(* Model of the filecoin-verifier service: the DynamoDB user record and    *)
(* its per-lock flags (aws.go), and the two request handlers with their    *)
(* detached reconciliation goroutines, serveVerifyAccount and serveFaucet, *)
(* plus the account-linking handler serveOauth.                            *)
(*                                                                         *)
(* A handler takes one step per call that can block (a record store access *)
(* or a ledger call), together with the local computation that follows it; *)
(* other requests, goroutines and the clock move between these steps.      *)
(* Ledger answers and store failures of lockUser and getUserByID are       *)
(* chosen freely.                                                          *)
(*                                                                         *)
(* Time is counted in days since Go's zero time.Time.  Big integers that   *)
(* exceed the checker's integer range (raw byte power) are kept as two     *)
(* limbs in base 2^30: <<hi, lo>> stands for hi * 2^30 + lo.               *)
(***************************************************************************)
EXTENDS Integers, Sequences, FiniteSets, TLC

\* ---------------------------------------------------------------- bounds
NumReqs == 2
MaxTime == 70

\* ------------------------------------------------- configuration (env.*)
MinAccountAgeDays == 7
VerifierMinAccountAgeDays == 30
FaucetMinAccountAge == 7
FaucetRateLimit == 30
FaucetMinGrant == 5
FaucetBaseRate == 20
MaxAllowanceBytes == 32
\* the literal 30 * 24 * time.Hour of the reallocation check, in days
AllocationCooldownDays == 30
\* 1073741824, the divisor that turns raw bytes into GiB
GiB == 1073741824

\* ---------------------------------------------------------- value domains
Reqs == 1..NumReqs
Users == {"u1"}
Providers == {"github"}
ZeroTime == 0
StartDay == 40
TickDays == {29, 30}
NoCid == 0
\* the cid of a faucet message sent before the requests of the model
PriorCid == NumReqs + 1
\* owed before any assignment: types.FIL{} whose *big.Int is nil
Nil == -1

UserLock_Verifier == "Verifier"
UserLock_Faucet == "Faucet"

\* DynamoDB attributes of an item that are not fields of the User struct
LockAttr(lock) == "Locked_" \o lock
FlagAttrs == {"Locked", "Locked_Verifier", "Locked_Faucet"}

\* readings of the verified-registry capacity of the target address
\* what the verified-clients table holds for the target: no entry, or a cap
NoReading == [found |-> FALSE, cap |-> Nil]
RemainingReadings ==
    {[found |-> FALSE, cap |-> 0]}
        \cup {[found |-> TRUE, cap |-> c] : c \in {20, MaxAllowanceBytes, 40}}
\* raw byte power readings, as <<GiB limb, byte limb>>
PowerReadings == {<<80, 0>>, <<83, 5>>, <<100, 0>>}

\* lotus call sequences, in milliseconds: the context's timeout, and how long
\* one node call may take
CtxTimeout == 14000
CallMs == 6000
CallDurations == {0, CallMs}
\* wait := 5 * time.Second
RetryFirstWait == 5000

\* the state of the handlers and of the record store
VARIABLES db, now, pc, kind, snap, owed, remaining, sent, isMiner, prevPower,
          currentPower, outcome, unlocks, submits, tasks

\* the state of one lotus call sequence under a context with a deadline
VARIABLES op, stage, rpos, elapsed, wait, err, ret, tries, client, callResult, failedAt

handlerVars == <<db, now, pc, kind, snap, owed, remaining, sent, isMiner, prevPower,
                 currentPower, outcome, unlocks, submits, tasks>>

lotusVars == <<op, stage, rpos, elapsed, wait, err, ret, tries, client,
               callResult, failedAt>>

vars == <<handlerVars, lotusVars>>

\* ------------------------------------------------------------ User record
\* the fields the User struct declares; the handlers do not use FilecoinAddress
DeclaredFields(id, accounts, alloc) ==
    [ID |-> id,
     Accounts |-> accounts,
     MostRecentAllocation |-> alloc,
     MostRecentFaucetGrant |-> ZeroTime,
     FilecoinAddress |-> ""]

\* the fields of user that serveVerifyAccount and serveFaucet read and write
\* and the struct does not declare: the declaration the handlers are written
\* against is taken to hold them as plain fields, marshalled like the others
HandlerFields(minerGrant, minerCid, received, addr) ==
    [MostRecentMinerFaucetGrant |-> minerGrant,
     MostRecentMinerFaucetGrantCid |-> minerCid,
     ReceivedNonMinerFaucetGrant |-> received,
     VerifiedFilecoinAddress |-> addr]

\* the user value the handlers work on, under that declaration
User(id, accounts, alloc, minerGrant, minerCid, received, addr) ==
    DeclaredFields(id, accounts, alloc)
        @@ HandlerFields(minerGrant, minerCid, received, addr)

\* the Go zero value of User
ZeroUser == User("", {}, ZeroTime, ZeroTime, NoCid, FALSE, "")

NoFlags == [a \in FlagAttrs |-> "absent"]

\* user.HasAccountOlderThan(threshold): the threshold argument is not used
HasAccountOlderThan(user, threshold, t) ==
    \E account \in user.Accounts : t - account.CreatedAt >= MinAccountAgeDays

HasRequestedFromFaucetAsMiner(user) ==
    user.MostRecentMinerFaucetGrantCid # NoCid

\* ----------------------------------------------------------- record store
getUserByID(store, userID) == store[userID].user

LockCondition(item, lock) ==
    \/ item.flags[LockAttr(lock)] = "false"
    \/ item.flags["Locked"] = "absent"

\* lockUser: conditional update; ok = the condition held and the flag was set
lockUser(store, userID, lock) ==
    IF LockCondition(store[userID], lock)
    THEN [ok |-> TRUE,
          db |-> [store EXCEPT ![userID].flags[LockAttr(lock)] = "true"]]
    ELSE [ok |-> FALSE, db |-> store]

\* an unlock that writes false whatever the stored flag is
unlockUser_Unconditional(store, userID, lock) ==
    [ok |-> TRUE, db |-> [store EXCEPT ![userID].flags[LockAttr(lock)] = "false"]]

\* "'Locked_<lock>' = ?" with true
UnlockCondition(item, lock) == item.flags[LockAttr(lock)] = "true"

unlockUser(store, userID, lock) ==
    IF UnlockCondition(store[userID], lock)
    THEN [ok |-> TRUE,
          db |-> [store EXCEPT ![userID].flags[LockAttr(lock)] = "false"]]
    ELSE [ok |-> FALSE, db |-> store]

\* saveUser: table.Put replaces the whole item by the marshalled struct
saveUser(store, user) ==
    [store EXCEPT ![user.ID] = [user |-> user, flags |-> NoFlags]]

\* ------------------------------------------------------------ big integers
\* types.BigSub on two non-negative limb pairs: sign and magnitude
BigSub(a, b) ==
    LET ge == a[1] > b[1] \/ (a[1] = b[1] /\ a[2] >= b[2])
        x == IF ge THEN a ELSE b
        y == IF ge THEN b ELSE a
        borrow == IF x[2] < y[2] THEN 1 ELSE 0
        lo == IF x[2] < y[2] THEN (GiB - y[2]) + x[2] ELSE x[2] - y[2]
    IN [neg |-> ~ge, hi |-> x[1] - y[1] - borrow, lo |-> lo]

BigIsPositive(d) == ~d.neg /\ (d.hi > 0 \/ d.lo > 0)

\* types.BigDiv(d, 2^30) of a positive d: the GiB limb
BigDivGiB(d) == d.hi


\* ------------------------------------------------------- eligibility checks
\* a reallocation check that also rejects the day the cooldown ends
AllocatedTooRecently_Inclusive(user, t) ==
    user.MostRecentAllocation + AllocationCooldownDays >= t

\* user.MostRecentAllocation.Add(30 * 24 * time.Hour).After(time.Now())
AllocatedTooRecently(user, t) ==
    user.MostRecentAllocation + AllocationCooldownDays > t

\* a rate limit that is never applied
FaucetRateLimited_Never(user, t) == FALSE

\* user.MostRecentMinerFaucetGrant.Add(env.FaucetRateLimit).After(time.Now())
FaucetRateLimited(user, t) ==
    user.MostRecentMinerFaucetGrant + FaucetRateLimit > t

\* --------------------------------------------------------- allowance quota
\* a capacity lookup that counts a missing entry as a full allowance
lotusCheckAccountRemainingBytes_MissingIsFull(reading) ==
    IF reading.found THEN reading.cap ELSE MaxAllowanceBytes

\* vh.Find with ignoreNotFound: dcap, or big.NewInt(0) when dcap.Int is nil
lotusCheckAccountRemainingBytes(reading) ==
    IF reading.found THEN reading.cap ELSE 0

\* owed := big.Sub(env.MaxAllowanceBytes, remaining)
AllowanceOwed(cap) == MaxAllowanceBytes - cap

\* decimal text of a big integer, as big.Int.String writes it
DigitChars == <<"0", "1", "2", "3", "4", "5", "6", "7", "8", "9">>

RECURSIVE NatString(_)
NatString(n) ==
    IF n < 10 THEN <<DigitChars[n + 1]>>
    ELSE Append(NatString(n \div 10), DigitChars[(n % 10) + 1])

BigString(n) == IF n < 0 THEN <<"-">> \o NatString(-n) ELSE NatString(n)

DigitValue(c) == CHOOSE d \in 0..9 : DigitChars[d + 1] = c

RECURSIVE ParseNat(_)
ParseNat(s) ==
    IF Len(s) = 0 THEN 0
    ELSE ParseNat(SubSeq(s, 1, Len(s) - 1)) * 10 + DigitValue(s[Len(s)])

\* types.BigFromString(allowanceStr): base-10 text back to a big integer
BigFromString(s) == IF s[1] = "-" THEN -ParseNat(Tail(s)) ELSE ParseNat(s)

\* the Allowance of the AddVerifiedClient message that lotusVerifyAccount pushes
lotusVerifyAccount(allowanceStr) == BigFromString(allowanceStr)

\* ------------------------------------------------------------ quota policy
\* a first grant that gives a miner the minimum grant
BaseGrant_MinimumForMiner(miner) ==
    IF miner THEN FaucetMinGrant ELSE FaucetBaseRate

\* owed = env.FaucetBaseRate, for a non-miner and for a miner's first request
BaseGrant(miner) == FaucetBaseRate

\* a grant that is not halved
PowerGrant_NotHalved(prev, cur) ==
    LET powerDiff == BigSub(prev, cur)
    IN IF BigIsPositive(powerDiff) THEN BigDivGiB(powerDiff) ELSE Nil

\* serveFaucet's grant for a miner that has requested before; Nil compared
\* with the minimum grant dereferences a nil *big.Int and panics
PowerGrant(prev, cur) ==
    LET powerDiff == BigSub(prev, cur)
    IN IF BigIsPositive(powerDiff) THEN BigDivGiB(powerDiff) \div 2 ELSE Nil

\* "apply a lower bound": BigCmp(owed, env.FaucetMinGrant) < 0 on a nil owed
\* dereferences a nil *big.Int, which panics
ApplyLowerBound(grant) ==
    IF grant = Nil THEN [panic |-> TRUE, owed |-> Nil]
    ELSE [panic |-> FALSE,
          owed |-> IF grant < FaucetMinGrant THEN FaucetMinGrant ELSE grant]

\* --------------------------------------------------------- reconciliation
\* what the allocation goroutine writes into its copy of the record once the
\* wait returned without error (ok = exit code 0)
VerifyCredit(user, target, ok, t) ==
    LET bound == [user EXCEPT !.VerifiedFilecoinAddress = target]
    IN IF ok THEN [bound EXCEPT !.MostRecentAllocation = t] ELSE bound

\* a credit that forgets the cid of a miner grant
FaucetCredit_NoCid(user, miner, c, t) ==
    IF miner
    THEN [user EXCEPT !.MostRecentMinerFaucetGrant = t]
    ELSE [user EXCEPT !.ReceivedNonMinerFaucetGrant = TRUE]

\* what the faucet goroutine writes into its copy of the record once the
\* message succeeded
FaucetCredit(user, miner, c, t) ==
    IF miner
    THEN [user EXCEPT !.MostRecentMinerFaucetGrant = t,
                      !.MostRecentMinerFaucetGrantCid = c]
    ELSE [user EXCEPT !.ReceivedNonMinerFaucetGrant = TRUE]

\* ------------------------------------------------------------------- state
LockOf(k) == IF k = "verify" THEN UserLock_Verifier ELSE UserLock_Faucet
Subject(r) == "u1"
Target(r) == "f1"
\* the cid of the message request r pushed to the mempool
CidOf(r) == r

PriorAllocationAge == AllocationCooldownDays + 1

\* a subject that never received anything, linked a week ago
FreshUser ==
    User("u1", {[Provider |-> "github", CreatedAt |-> StartDay - MinAccountAgeDays]},
         ZeroTime, ZeroTime, NoCid, FALSE, "")

\* that subject, one linked today, and one whose last allocation was confirmed
\* PriorAllocationAge days ago
InitUsers ==
    {FreshUser}
    \cup
    {User("u1", {[Provider |-> "github", CreatedAt |-> StartDay]},
          ZeroTime, ZeroTime, NoCid, FALSE, "")}
    \cup
    {User("u1", {[Provider |-> "github", CreatedAt |-> StartDay - MinAccountAgeDays]},
          StartDay - PriorAllocationAge, ZeroTime, NoCid, FALSE, "f1")}

\* no lotus call sequence is being followed
LotusIdle ==
    /\ op = "none"
    /\ stage = "end"
    /\ rpos = "end"
    /\ elapsed = 0
    /\ wait = RetryFirstWait
    /\ err = "nil"
    /\ ret = "nil"
    /\ tries = 0
    /\ client = "nil"
    /\ callResult = "none"
    /\ failedAt = "none"

HandlerInit(users) ==
    /\ \E u \in users : db = [id \in Users |-> [user |-> u, flags |-> NoFlags]]
    /\ now = StartDay
    /\ pc = [r \in Reqs |-> "idle"]
    /\ kind = [r \in Reqs |-> "none"]
    /\ snap = [r \in Reqs |-> ZeroUser]
    /\ owed = [r \in Reqs |-> Nil]
    /\ remaining = [r \in Reqs |-> NoReading]
    /\ sent = [r \in Reqs |-> Nil]
    /\ isMiner = [r \in Reqs |-> FALSE]
    /\ prevPower = [r \in Reqs |-> <<0, 0>>]
    /\ currentPower = [r \in Reqs |-> <<0, 0>>]
    /\ outcome = [r \in Reqs |-> "none"]
    /\ unlocks = [r \in Reqs |-> 0]
    /\ submits = [r \in Reqs |-> 0]
    /\ tasks = [r \in Reqs |-> 0]

Init == HandlerInit(InitUsers) /\ LotusIdle

\* a refusal that still runs the deferred unlock
Refused_ThenUnlocks(r, k, why) ==
    /\ pc' = [pc EXCEPT ![r] = "done"]
    /\ kind' = [kind EXCEPT ![r] = k]
    /\ outcome' = [outcome EXCEPT ![r] = why]
    /\ db' = unlockUser(db, Subject(r), LockOf(k)).db
    /\ UNCHANGED <<now, snap, owed, remaining, sent, isMiner, prevPower,
                   currentPower, unlocks, submits, tasks>>

\* a handler returned before its lock call, or the lock call returned an error
Refused(r, k, why) ==
    /\ pc' = [pc EXCEPT ![r] = "done"]
    /\ kind' = [kind EXCEPT ![r] = k]
    /\ outcome' = [outcome EXCEPT ![r] = why]
    /\ UNCHANGED <<db, now, snap, owed, remaining, sent, isMiner, prevPower,
                   currentPower, unlocks, submits, tasks>>

\* a handler that starts its goroutine although the submit call failed
Stopped_SpawnsOnFailure(r, user, why) ==
    /\ pc' = [pc EXCEPT ![r] = IF why = "submitfailed" THEN "wait" ELSE "unlock_sync"]
    /\ snap' = [snap EXCEPT ![r] = user]
    /\ outcome' = [outcome EXCEPT ![r] = why]
    /\ submits' = [submits EXCEPT ![r] = IF why = "submitfailed" THEN @ + 1 ELSE @]
    /\ tasks' = [tasks EXCEPT ![r] = IF why = "submitfailed" THEN @ + 1 ELSE @]
    /\ UNCHANGED sent

\* a handler that returns from a stop without its deferred unlock
Stopped_ReturnsHeld(r, user, why) ==
    /\ pc' = [pc EXCEPT ![r] = "done"]
    /\ snap' = [snap EXCEPT ![r] = user]
    /\ outcome' = [outcome EXCEPT ![r] = why]
    /\ submits' = [submits EXCEPT ![r] = IF why = "submitfailed" THEN @ + 1 ELSE @]
    /\ UNCHANGED <<sent, tasks>>

\* a handler stopped after its lock call without a pushed message: the
\* deferred unlock is still to run.  submitfailed is the one stop that comes
\* after the submit call (lotusVerifyAccount, lotusSendFIL) was made
Stopped(r, user, why) ==
    /\ pc' = [pc EXCEPT ![r] = "unlock_sync"]
    /\ snap' = [snap EXCEPT ![r] = user]
    /\ outcome' = [outcome EXCEPT ![r] = why]
    /\ submits' = [submits EXCEPT ![r] = IF why = "submitfailed" THEN @ + 1 ELSE @]
    /\ UNCHANGED <<sent, tasks>>

\* the message carrying amount was pushed and the handler answered with its
\* cid; the reconciliation goroutine is still to run
Submitted(r, user, amount) ==
    /\ pc' = [pc EXCEPT ![r] = "wait"]
    /\ snap' = [snap EXCEPT ![r] = user]
    /\ outcome' = [outcome EXCEPT ![r] = "submitted"]
    /\ sent' = [sent EXCEPT ![r] = amount]
    /\ submits' = [submits EXCEPT ![r] = @ + 1]
    /\ tasks' = [tasks EXCEPT ![r] = @ + 1]

\* the handler goes on to its next blocking call with user as its copy of the
\* record
Continues(r, user, at) ==
    /\ pc' = [pc EXCEPT ![r] = at]
    /\ snap' = [snap EXCEPT ![r] = user]
    /\ UNCHANGED <<outcome, sent, submits, tasks>>

\* the locals of a handler or goroutine that is past its last use of them
Returned(r, at) ==
    /\ pc' = [pc EXCEPT ![r] = at]
    /\ snap' = [snap EXCEPT ![r] = ZeroUser]
    /\ owed' = [owed EXCEPT ![r] = Nil]
    /\ remaining' = [remaining EXCEPT ![r] = NoReading]
    /\ sent' = [sent EXCEPT ![r] = Nil]
    /\ prevPower' = [prevPower EXCEPT ![r] = <<0, 0>>]
    /\ currentPower' = [currentPower EXCEPT ![r] = <<0, 0>>]
    /\ isMiner' = [isMiner EXCEPT ![r] = FALSE]

\* requests are numbered in the order the router hands them to their handlers
Arrives(r) == pc[r] = "idle" /\ \A q \in Reqs : q < r => pc[q] # "idle"

\* ------------------------------------------------------ serveVerifyAccount
\* a handler that reads the subject's record in the step of its lock call
V_Lock_ReadsRecord(r) ==
    /\ Arrives(r)
    /\ LET res == lockUser(db, Subject(r), UserLock_Verifier)
       IN /\ db' = res.db
          /\ snap' = [snap EXCEPT ![r] = getUserByID(db, Subject(r))]
    /\ pc' = [pc EXCEPT ![r] = "v_get"]
    /\ kind' = [kind EXCEPT ![r] = "verify"]
    /\ UNCHANGED <<now, owed, remaining, sent, isMiner, prevPower, currentPower,
                   outcome, unlocks, submits, tasks>>
    /\ UNCHANGED lotusVars

\* request parsing, JWT check and lockUser(userID, UserLock_Verifier)
V_Lock(r) ==
    /\ Arrives(r)
    /\ \E badRequest \in BOOLEAN, storeErr \in BOOLEAN :
        LET res == lockUser(db, Subject(r), UserLock_Verifier)
        IN IF badRequest THEN Refused(r, "verify", "rejected")
           ELSE IF storeErr \/ ~res.ok THEN Refused(r, "verify", "conflict")
           ELSE /\ db' = res.db
                /\ pc' = [pc EXCEPT ![r] = "v_get"]
                /\ kind' = [kind EXCEPT ![r] = "verify"]
                /\ UNCHANGED <<now, snap, owed, remaining, sent, isMiner,
                               prevPower, currentPower,
                               outcome, unlocks, submits, tasks>>
    /\ UNCHANGED lotusVars

\* getUserByID and the two eligibility checks, which read the clock
V_Get(r) ==
    /\ pc[r] = "v_get"
    /\ LET user == getUserByID(db, Subject(r))
       IN \/ Stopped(r, ZeroUser, "notfound")
          \/ /\ ~HasAccountOlderThan(user, VerifierMinAccountAgeDays, now)
             /\ Stopped(r, user, "toonew")
          \/ /\ HasAccountOlderThan(user, VerifierMinAccountAgeDays, now)
             /\ IF AllocatedTooRecently(user, now)
                THEN Stopped(r, user, "cooldown")
                ELSE Continues(r, user, "v_remaining")
    /\ UNCHANGED <<db, now, kind, owed, remaining, isMiner, prevPower,
                   currentPower, unlocks>>
    /\ UNCHANGED lotusVars

\* lotusCheckAccountRemainingBytes returned: the quota and the nothing-owed
\* check
V_Remaining(r) ==
    /\ pc[r] = "v_remaining"
    /\ \/ Stopped(r, snap[r], "readerr") /\ UNCHANGED <<owed, remaining>>
       \/ \E reading \in RemainingReadings :
           LET due == AllowanceOwed(lotusCheckAccountRemainingBytes(reading))
           IN /\ remaining' = [remaining EXCEPT ![r] = reading]
              /\ owed' = [owed EXCEPT ![r] = due]
              /\ IF due <= 0
                 THEN Stopped(r, snap[r], "nothingowed")
                 ELSE Continues(r, snap[r], "v_submit")
    /\ UNCHANGED <<db, now, kind, isMiner, prevPower, currentPower, unlocks>>
    /\ UNCHANGED lotusVars

\* lotusVerifyAccount returned, up to the HTTP response
V_Submit(r) ==
    /\ pc[r] = "v_submit"
    /\ \/ Stopped(r, snap[r], "submitfailed")
       \/ Submitted(r, snap[r], lotusVerifyAccount(BigString(owed[r])))
    /\ UNCHANGED <<db, now, kind, owed, remaining, isMiner, prevPower,
                   currentPower, unlocks>>
    /\ UNCHANGED lotusVars

\* the deferred unlock of the synchronous path, run when nothing was submitted
V_UnlockSync(r) ==
    /\ pc[r] = "unlock_sync"
    /\ kind[r] = "verify"
    /\ db' = unlockUser(db, Subject(r), UserLock_Verifier).db
    /\ unlocks' = [unlocks EXCEPT ![r] = @ + 1]
    /\ Returned(r, "done")
    /\ UNCHANGED <<now, kind, outcome, submits, tasks>>
    /\ UNCHANGED lotusVars

\* what lotusWaitMessageResult can give the goroutine: an error, exit code
\* non-zero, exit code 0
WaitResults == {"err", "failed", "ok"}

\* the goroutine after lotusWaitMessageResult gave result, up to its return
V_Save(r, result) ==
    /\ IF result = "err"
       THEN /\ outcome' = [outcome EXCEPT ![r] = "unconfirmed"]
            /\ UNCHANGED db
       ELSE /\ outcome' = [outcome EXCEPT ![r] =
                             IF result = "ok" THEN "confirmed" ELSE "failed"]
            /\ db' = saveUser(db, VerifyCredit(snap[r], Target(r), result = "ok", now))
    /\ Returned(r, "unlock_async")
    /\ UNCHANGED <<now, kind, unlocks, submits, tasks>>

\* the goroutine up to its return: lotusWaitMessageResult and the save
V_Reconcile(r) ==
    /\ pc[r] = "wait"
    /\ kind[r] = "verify"
    /\ \E result \in WaitResults : V_Save(r, result)
    /\ UNCHANGED lotusVars

\* the goroutine's deferred unlockUser
V_UnlockAsync(r) ==
    /\ pc[r] = "unlock_async"
    /\ kind[r] = "verify"
    /\ db' = unlockUser(db, Subject(r), UserLock_Verifier).db
    /\ unlocks' = [unlocks EXCEPT ![r] = @ + 1]
    /\ Returned(r, "done")
    /\ UNCHANGED <<now, kind, outcome, submits, tasks>>
    /\ UNCHANGED lotusVars


\* -------------------------------------------------------------- serveFaucet
\* address parsing, node API, faucet address, JWT check and
\* lockUser(userID, UserLock_Faucet)
F_Lock(r) ==
    /\ Arrives(r)
    /\ \E badRequest \in BOOLEAN, storeErr \in BOOLEAN :
        LET res == lockUser(db, Subject(r), UserLock_Faucet)
        IN IF badRequest THEN Refused(r, "faucet", "rejected")
           ELSE IF storeErr \/ ~res.ok THEN Refused(r, "faucet", "conflict")
           ELSE /\ db' = res.db
                /\ pc' = [pc EXCEPT ![r] = "f_get"]
                /\ kind' = [kind EXCEPT ![r] = "faucet"]
                /\ UNCHANGED <<now, snap, owed, remaining, sent, isMiner,
                               prevPower, currentPower,
                               outcome, unlocks, submits, tasks>>
    /\ UNCHANGED lotusVars

\* getUserByID and the account-age check, which reads the clock
F_Get(r) ==
    /\ pc[r] = "f_get"
    /\ LET user == getUserByID(db, Subject(r))
       IN \/ Stopped(r, ZeroUser, "notfound")
          \/ /\ ~HasAccountOlderThan(user, FaucetMinAccountAge, now)
             /\ Stopped(r, user, "toonew")
          \/ /\ HasAccountOlderThan(user, FaucetMinAccountAge, now)
             /\ Continues(r, user, "f_miner")
    /\ UNCHANGED <<db, now, kind, owed, remaining, isMiner, prevPower,
                   currentPower, unlocks>>
    /\ UNCHANGED lotusVars

\* lotusGetMinerAddr returned miner: the once-only check, and for a miner
\* that has requested before the rate limit, which reads the clock again;
\* every other target is owed the base rate
F_Miner(r) ==
    /\ pc[r] = "f_miner"
    /\ \E miner \in {"miner", "notminer", "err"} :
        LET user == snap[r]
            repeat == miner = "miner" /\ HasRequestedFromFaucetAsMiner(user)
        IN IF miner = "err"
           THEN Stopped(r, user, "readerr") /\ UNCHANGED <<owed, isMiner>>
           ELSE IF miner = "notminer" /\ user.ReceivedNonMinerFaucetGrant
           THEN Stopped(r, user, "oncealready") /\ UNCHANGED <<owed, isMiner>>
           ELSE IF repeat
           THEN /\ isMiner' = [isMiner EXCEPT ![r] = TRUE]
                /\ UNCHANGED owed
                /\ IF FaucetRateLimited(user, now)
                   THEN Stopped(r, user, "ratelimited")
                   ELSE Continues(r, user, "f_search")
           ELSE /\ isMiner' = [isMiner EXCEPT ![r] = (miner = "miner")]
                /\ owed' = [owed EXCEPT ![r] = BaseGrant(miner = "miner")]
                /\ Continues(r, user, "f_send")
    /\ UNCHANGED <<db, now, kind, remaining, prevPower, currentPower, unlocks>>
    /\ UNCHANGED lotusVars

\* api.StateSearchMsg(ctx, user.MostRecentMinerFaucetGrantCid) returned
F_Search(r) ==
    /\ pc[r] = "f_search"
    /\ \/ Stopped(r, snap[r], "readerr")
       \/ Continues(r, snap[r], "f_prev")
    /\ UNCHANGED <<db, now, kind, owed, remaining, isMiner, prevPower,
                   currentPower, unlocks>>
    /\ UNCHANGED lotusVars

\* lotusGetMinerPower(ctx, minerAddr, receipt.TipSet) returned
F_Prev(r) ==
    /\ pc[r] = "f_prev"
    /\ \/ Stopped(r, snap[r], "readerr") /\ UNCHANGED prevPower
       \/ \E prev \in PowerReadings :
           /\ prevPower' = [prevPower EXCEPT ![r] = prev]
           /\ Continues(r, snap[r], "f_current")
    /\ UNCHANGED <<db, now, kind, owed, remaining, isMiner, currentPower,
                   unlocks>>
    /\ UNCHANGED lotusVars

\* lotusGetMinerPower(ctx, minerAddr, types.EmptyTSK) returned: the grant
\* from the power difference and its lower bound
F_Current(r) ==
    /\ pc[r] = "f_current"
    /\ \/ Stopped(r, snap[r], "readerr") /\ UNCHANGED <<owed, currentPower>>
       \/ \E cur \in PowerReadings :
           LET quota == ApplyLowerBound(PowerGrant(prevPower[r], cur))
           IN /\ currentPower' = [currentPower EXCEPT ![r] = cur]
              /\ IF quota.panic
                 THEN Stopped(r, snap[r], "panic") /\ UNCHANGED owed
                 ELSE /\ owed' = [owed EXCEPT ![r] = quota.owed]
                      /\ Continues(r, snap[r], "f_send")
    /\ UNCHANGED <<db, now, kind, remaining, isMiner, prevPower, unlocks>>
    /\ UNCHANGED lotusVars

\* lotusSendFIL returned, up to the HTTP response; it returns no cid when it
\* returns an error and when it panics on a nil client
F_Send(r) ==
    /\ pc[r] = "f_send"
    /\ \/ Stopped(r, snap[r], "submitfailed")
       \/ Submitted(r, snap[r], owed[r])
    /\ UNCHANGED <<db, now, kind, owed, remaining, isMiner, prevPower,
                   currentPower, unlocks>>
    /\ UNCHANGED lotusVars

\* the deferred unlock of the synchronous path, run when nothing was submitted
F_UnlockSync(r) ==
    /\ pc[r] = "unlock_sync"
    /\ kind[r] = "faucet"
    /\ db' = unlockUser(db, Subject(r), UserLock_Faucet).db
    /\ unlocks' = [unlocks EXCEPT ![r] = @ + 1]
    /\ Returned(r, "done")
    /\ UNCHANGED <<now, kind, outcome, submits, tasks>>
    /\ UNCHANGED lotusVars

\* the goroutine after lotusWaitMessageResult gave result, up to its return
F_Save(r, result) ==
    /\ IF result = "ok"
       THEN /\ outcome' = [outcome EXCEPT ![r] = "confirmed"]
            /\ db' = saveUser(db, FaucetCredit(snap[r], isMiner[r], CidOf(r), now))
       ELSE /\ outcome' = [outcome EXCEPT ![r] =
                             IF result = "err" THEN "unconfirmed" ELSE "failed"]
            /\ UNCHANGED db
    /\ Returned(r, "unlock_async")
    /\ UNCHANGED <<now, kind, unlocks, submits, tasks>>

\* the goroutine up to its return: lotusWaitMessageResult and the save
F_Reconcile(r) ==
    /\ pc[r] = "wait"
    /\ kind[r] = "faucet"
    /\ \E result \in WaitResults : F_Save(r, result)
    /\ UNCHANGED lotusVars

\* the goroutine's deferred unlockUser
F_UnlockAsync(r) ==
    /\ pc[r] = "unlock_async"
    /\ kind[r] = "faucet"
    /\ db' = unlockUser(db, Subject(r), UserLock_Faucet).db
    /\ unlocks' = [unlocks EXCEPT ![r] = @ + 1]
    /\ Returned(r, "done")
    /\ UNCHANGED <<now, kind, outcome, submits, tasks>>
    /\ UNCHANGED lotusVars

\* --------------------------------------------------------------- serveOauth
\* the provider round trip and getUserWithProviderUniqueID: the scan finds the
\* subject's record by the unique id of its linked account
O_Read(r) ==
    /\ Arrives(r)
    /\ \E p \in Providers :
        /\ \E a \in db["u1"].user.Accounts : a.Provider = p
        /\ snap' = [snap EXCEPT ![r] = db["u1"].user]
    /\ pc' = [pc EXCEPT ![r] = "o_save"]
    /\ kind' = [kind EXCEPT ![r] = "oauth"]
    /\ UNCHANGED <<db, now, owed, remaining, sent, isMiner, prevPower,
                   currentPower, outcome, unlocks, submits, tasks>>
    /\ UNCHANGED lotusVars

\* user.Accounts[providerName] = accountData; saveUser(user)
O_Save(r) ==
    /\ pc[r] = "o_save"
    /\ \E accountData \in snap[r].Accounts :
        LET user == [snap[r] EXCEPT !.Accounts =
                        {a \in @ : a.Provider # accountData.Provider}
                            \cup {accountData}]
        IN db' = saveUser(db, user)
    /\ pc' = [pc EXCEPT ![r] = "done"]
    /\ outcome' = [outcome EXCEPT ![r] = "linked"]
    /\ snap' = [snap EXCEPT ![r] = ZeroUser]
    /\ UNCHANGED <<now, kind, owed, remaining, sent, isMiner, prevPower,
                   currentPower, unlocks, submits, tasks>>
    /\ UNCHANGED lotusVars

\* -------------------------------------------------------------------- clock
Tick ==
    /\ \E d \in TickDays : now + d <= MaxTime /\ now' = now + d
    /\ UNCHANGED <<db, pc, kind, snap, owed, remaining, sent, isMiner, prevPower,
                   currentPower,
                   outcome, unlocks, submits, tasks>>
    /\ UNCHANGED lotusVars

Next ==
    \/ \E r \in Reqs : V_Lock(r)
    \/ \E r \in Reqs : V_Get(r)
    \/ \E r \in Reqs : V_Remaining(r)
    \/ \E r \in Reqs : V_Submit(r)
    \/ \E r \in Reqs : V_UnlockSync(r)
    \/ \E r \in Reqs : V_Reconcile(r)
    \/ \E r \in Reqs : V_UnlockAsync(r)
    \/ \E r \in Reqs : F_Lock(r)
    \/ \E r \in Reqs : F_Get(r)
    \/ \E r \in Reqs : F_Miner(r)
    \/ \E r \in Reqs : F_Search(r)
    \/ \E r \in Reqs : F_Prev(r)
    \/ \E r \in Reqs : F_Current(r)
    \/ \E r \in Reqs : F_Send(r)
    \/ \E r \in Reqs : F_UnlockSync(r)
    \/ \E r \in Reqs : F_Reconcile(r)
    \/ \E r \in Reqs : F_UnlockAsync(r)
    \/ \E r \in Reqs : O_Read(r)
    \/ \E r \in Reqs : O_Save(r)
    \/ Tick

Spec == Init /\ [][Next]_vars


\* ------------------------------------------------------- lotus call sequences
\* "verify" is lotusVerifyAccount from lotusGetFullNodeAPI on: the node API
\* (under retry), the two gas estimates and MpoolPushMessage.
\* "send" is lotusSendFIL: the node API (under retry), WalletDefaultAddress,
\* the two gas estimates and MpoolPushMessage.
\* "await" is lotusWaitMessageResult: the node API (under retry) and
\* StateWaitMsg (under retry).
LotusOps == {"verify", "send", "await"}

\* how much of its context is spent when a sequence is entered.  The contexts
\* of lotusVerifyAccount and lotusWaitMessageResult are made right before the
\* call; lotusSendFIL gets serveFaucet's context, which the handler's earlier
\* node calls have used and may have used up
EntryElapsed(o) ==
    IF o = "send" THEN {0, CallMs, CtxTimeout + CallMs} ELSE {0}

\* retry is entered: wait := 5 * time.Second, and the named result err is nil
RetryEntered(st) ==
    /\ stage' = st
    /\ rpos' = "select"
    /\ wait' = RetryFirstWait
    /\ err' = "nil"
    /\ tries' = 0

LotusInit ==
    /\ HandlerInit({FreshUser})
    /\ op \in LotusOps
    /\ stage = "api"
    /\ rpos = "select"
    /\ elapsed \in EntryElapsed(op)
    /\ wait = RetryFirstWait
    /\ err = "nil"
    /\ ret = "nil"
    /\ tries = 0
    /\ client = "nil"
    /\ callResult = "none"
    /\ failedAt = "none"

\* the sequence is over: ok, error or panic, and the call it ended at
Finished(how, at) ==
    /\ callResult' = how
    /\ failedAt' = at
    /\ stage' = "end"
    /\ rpos' = "end"

\* ctx.Done() is readable once the timeout has passed
CtxDone(t) == t >= CtxTimeout

\* select { case <-ctx.Done(): return err; default: }
RetrySelect(t, e) == [leave |-> CtxDone(t), ret |-> e]

\* the top of retry's loop
Retry_Select ==
    /\ rpos = "select"
    /\ LET sel == RetrySelect(elapsed, err)
       IN IF sel.leave
          THEN ret' = sel.ret /\ rpos' = "out"
          ELSE rpos' = "call" /\ UNCHANGED ret
    /\ UNCHANGED <<op, stage, elapsed, wait, err, tries, client, callResult, failedAt>>
    /\ UNCHANGED handlerVars

\* a node call that starts at t and takes d: StateWaitMsg and the wallet, gas
\* and mempool calls take the context and fail at its deadline, or at once
\* when they start past it; client.NewFullNodeRPC does not take it
NodeCall(st, t, d, ok) ==
    LET cut == st # "api" /\ t + d > CtxTimeout
    IN [ok |-> ok /\ ~cut,
        at |-> IF ~cut THEN t + d ELSE IF t > CtxTimeout THEN t ELSE CtxTimeout]

\* err = fn(); return nil when it is nil
Retry_Call ==
    /\ rpos = "call"
    /\ \E d \in CallDurations, ok \in BOOLEAN :
        LET call == NodeCall(stage, elapsed, d, ok)
        IN /\ elapsed' = call.at
           /\ tries' = tries + 1
           /\ IF call.ok
              THEN /\ err' = "nil"
                   /\ ret' = "nil"
                   /\ rpos' = "out"
                   /\ client' = IF stage = "api" THEN "conn" ELSE client
              ELSE /\ err' = "failed"
                   /\ rpos' = "sleep"
                   /\ UNCHANGED <<ret, client>>
    /\ UNCHANGED <<op, stage, wait, callResult, failedAt>>
    /\ UNCHANGED handlerVars

\* time.Sleep(wait); wait += wait / 2; continue
Retry_Sleep ==
    /\ rpos = "sleep"
    /\ elapsed' = elapsed + wait
    /\ wait' = wait + (wait \div 2)
    /\ rpos' = "select"
    /\ UNCHANGED <<op, stage, err, ret, tries, client, callResult, failedAt>>
    /\ UNCHANGED handlerVars

\* the first call lotusVerifyAccount and lotusSendFIL make on the client
FirstCall(o) == IF o = "send" THEN "wallet" ELSE "gaslimit"

\* the call after st in lotusVerifyAccount and lotusSendFIL
NextCall(st) ==
    IF st = "wallet" THEN "gaslimit"
    ELSE IF st = "gaslimit" THEN "gasprice"
    ELSE "push"

\* the caller of retry takes its result: lotusGetFullNodeAPI's caller goes on
\* with the client it was given, lotusWaitMessageResult reads mwait.Receipt
Retry_Out ==
    /\ rpos = "out"
    /\ IF ret # "nil"
       THEN Finished("error", stage) /\ UNCHANGED <<wait, err, tries>>
       ELSE IF stage = "api" /\ op # "await"
       THEN /\ stage' = FirstCall(op)
            /\ rpos' = "once"
            /\ UNCHANGED <<wait, err, tries, callResult, failedAt>>
       ELSE IF stage = "api"
       THEN RetryEntered("statewait") /\ UNCHANGED <<callResult, failedAt>>
       ELSE /\ Finished(IF tries = 0 THEN "panic" ELSE "ok", stage)
            /\ UNCHANGED <<wait, err, tries>>
    /\ UNCHANGED <<op, elapsed, ret, client>>
    /\ UNCHANGED handlerVars

\* api.WalletDefaultAddress, lotusEstimateGasLimit, lotusEstimateGasPrice and
\* api.MpoolPushMessage: one call each, an error is returned to the handler at
\* once; on a nil client the first of them dereferences nil and panics
Once_Call ==
    /\ rpos = "once"
    /\ IF client = "nil"
       THEN Finished("panic", stage) /\ UNCHANGED elapsed
       ELSE \E d \in CallDurations, ok \in BOOLEAN :
           LET call == NodeCall(stage, elapsed, d, ok)
           IN /\ elapsed' = call.at
              /\ IF ~call.ok THEN Finished("error", stage)
                 ELSE IF stage = "push" THEN Finished("ok", stage)
                 ELSE /\ stage' = NextCall(stage)
                      /\ UNCHANGED <<rpos, callResult, failedAt>>
    /\ UNCHANGED <<op, wait, err, ret, tries, client>>
    /\ UNCHANGED handlerVars

LotusNext ==
    \/ Retry_Select
    \/ Retry_Call
    \/ Retry_Sleep
    \/ Retry_Out
    \/ Once_Call

LotusSpec == LotusInit /\ [][LotusNext]_vars

\* ------------------------------------------- a request followed to its end
\* one request whose goroutine's lotusWaitMessageResult is carried out call by
\* call under its context
LiveReqs == {CHOOSE r \in Reqs : \A q \in Reqs : r <= q}

\* go func(): context.WithTimeout and the entry of lotusWaitMessageResult
G_Begin(r) ==
    /\ pc[r] = "wait"
    /\ op = "none"
    /\ op' = "await"
    /\ RetryEntered("api")
    /\ elapsed' = 0
    /\ callResult' = "running"
    /\ UNCHANGED <<ret, client, failedAt>>
    /\ UNCHANGED handlerVars

\* what the goroutine gets from a finished call sequence: an error, or a
\* receipt with either exit code; a panic unwinds through the deferred
\* unlockUser like the error return does
ResultsOf(how) == IF how = "ok" THEN {"ok", "failed"} ELSE {"err"}

\* lotusWaitMessageResult returned: the rest of the goroutine up to its return
G_End(r) ==
    /\ pc[r] = "wait"
    /\ op = "await"
    /\ rpos = "end"
    /\ \E result \in ResultsOf(callResult) :
        IF kind[r] = "verify" THEN V_Save(r, result) ELSE F_Save(r, result)
    /\ UNCHANGED lotusVars

\* the steps of request r's handler and goroutine
LiveStep(r) ==
    \/ V_Lock(r)
    \/ V_Get(r)
    \/ V_Remaining(r)
    \/ V_Submit(r)
    \/ V_UnlockSync(r)
    \/ V_UnlockAsync(r)
    \/ F_Lock(r)
    \/ F_Get(r)
    \/ F_Miner(r)
    \/ F_Search(r)
    \/ F_Prev(r)
    \/ F_Current(r)
    \/ F_Send(r)
    \/ F_UnlockSync(r)
    \/ F_UnlockAsync(r)
    \/ G_Begin(r)
    \/ G_End(r)

\* the steps of the goroutine's call sequence
AwaitStep ==
    \/ Retry_Select
    \/ Retry_Call
    \/ Retry_Sleep
    \/ Retry_Out

LiveNext ==
    \/ \E r \in LiveReqs : LiveStep(r)
    \/ AwaitStep

\* a subject whose miner was granted FIL by message PriorCid, long enough ago
\* to ask again
PriorMiner ==
    User("u1", {[Provider |-> "github", CreatedAt |-> StartDay - MinAccountAgeDays]},
         ZeroTime, StartDay - FaucetRateLimit, PriorCid, FALSE, "")

LiveInit == HandlerInit(InitUsers \cup {PriorMiner}) /\ LotusIdle

\* the process keeps running: a handler or goroutine that can take a step
\* takes it, and every node call returns or is cut off by the deadline
LiveSpec ==
    /\ LiveInit
    /\ [][LiveNext]_vars
    /\ \A r \in LiveReqs : WF_vars(LiveStep(r))
    /\ WF_vars(AwaitStep)


\* ------------------------------------------------- a goroutine that panics
\* lotusWaitMessageResult reads mwait.Receipt with mwait nil (retry returned
\* nil without a call of StateWaitMsg): the goroutine panics, nothing is saved
\* and its deferred unlockUser is still to run
G_Panic(r) ==
    /\ pc[r] = "wait"
    /\ outcome' = [outcome EXCEPT ![r] = "unconfirmed"]
    /\ Returned(r, "unlock_panic")
    /\ UNCHANGED <<db, now, kind, unlocks, submits, tasks>>
    /\ UNCHANGED lotusVars

\* the panicking goroutine's deferred unlockUser; the panic then goes on
\* unwinding
G_UnlockPanic(r) ==
    /\ pc[r] = "unlock_panic"
    /\ db' = unlockUser(db, Subject(r), LockOf(kind[r])).db
    /\ unlocks' = [unlocks EXCEPT ![r] = @ + 1]
    /\ pc' = [pc EXCEPT ![r] = "panicked"]
    /\ UNCHANGED <<now, kind, snap, owed, remaining, sent, isMiner, prevPower,
                   currentPower, outcome, submits, tasks>>
    /\ UNCHANGED lotusVars

\* no function of the goroutine recovers, so the runtime ends the process:
\* every handler and goroutine in flight stops where it is and its locals are
\* gone, and no later request is served.  The store keeps what it holds
G_Exit(r) ==
    /\ pc[r] = "panicked"
    /\ pc' = [q \in Reqs |->
                IF pc[q] \in {"done", "panicked"} THEN "done" ELSE "exited"]
    /\ snap' = [q \in Reqs |-> ZeroUser]
    /\ owed' = [q \in Reqs |-> Nil]
    /\ remaining' = [q \in Reqs |-> NoReading]
    /\ sent' = [q \in Reqs |-> Nil]
    /\ isMiner' = [q \in Reqs |-> FALSE]
    /\ prevPower' = [q \in Reqs |-> <<0, 0>>]
    /\ currentPower' = [q \in Reqs |-> <<0, 0>>]
    /\ UNCHANGED <<db, now, kind, outcome, unlocks, submits, tasks>>
    /\ UNCHANGED lotusVars

PanicNext ==
    \/ Next
    \/ \E r \in Reqs : G_Panic(r)
    \/ \E r \in Reqs : G_UnlockPanic(r)
    \/ \E r \in Reqs : G_Exit(r)

\* the handlers and goroutines, a goroutine's panic ending the process
PanicSpec == Init /\ [][PanicNext]_vars

\* ================================================================== claims
Flag(userID, lock) == db[userID].flags[LockAttr(lock)]
Record(userID) == db[userID].user
\* the part of a record that the User struct declares
Declared(user) ==
    [f \in DOMAIN DeclaredFields("", {}, ZeroTime) |-> user[f]]
LockKinds == {"verify", "faucet"}

\* the positions of a handler between its lockUser call and its response
HandlerSteps == {"v_get", "v_remaining", "v_submit",
                 "f_get", "f_miner", "f_search", "f_prev", "f_current", "f_send"}

\* request r is between its successful lockUser and its unlockUser
Holding(r) ==
    pc[r] \in HandlerSteps \cup {"unlock_sync", "wait", "unlock_async", "unlock_panic"}

\* this step is request r's lockUser call returning nil
Acquires(r) == pc[r] = "idle" /\ pc'[r] \in {"v_get", "f_get"}

\* this step is request r's unlockUser call, after a successful lockUser
Releases(r) ==
    \/ pc[r] \in {"unlock_sync", "unlock_async"} /\ pc'[r] = "done"
    \/ pc[r] = "unlock_panic" /\ pc'[r] = "panicked"

\* this step sends request r's success response
Responds(r) == pc[r] \in {"v_submit", "f_send"} /\ pc'[r] = "wait"

\* this step is request r's goroutine from the wait to its return
Reconciles(r) == pc[r] = "wait" /\ pc'[r] = "unlock_async"

\* C1: of two lockUser calls on the same (subject, lock) one succeeds and the
\* other returns an error: a call that finds the flag true does not succeed.
C1_SecondAcquireConflicts ==
    [][\A r \in Reqs :
        Acquires(r) => Flag(Subject(r), LockOf(kind'[r])) # "true"]_vars

\* C2: at most one request is between its successful acquire and its release
\* for a given (subject, lock name), hence at most one reconciliation task.
C2_AtMostOneHolder ==
    \A k \in LockKinds :
        Cardinality({r \in Reqs : kind[r] = k /\ Holding(r)}) <= 1

\* C3: a request that acquired the lock makes exactly one unlockUser call over
\* its whole lifetime, whatever its outcome: it makes no call while it holds
\* the lock, it stops holding only by that call, the call is its first, and
\* right after it the flag is not true; a request that has ended after
\* acquiring has made the call.
C3_ReleasedExactlyOnce ==
    [][\A r \in Reqs :
        /\ unlocks'[r] # unlocks[r] => Releases(r)
        /\ Releases(r) =>
            /\ unlocks'[r] = 1
            /\ Flag(Subject(r), LockOf(kind[r]))' # "true"
        /\ (Holding(r) /\ ~Holding(r)') => Releases(r)
        /\ Holding(r)' => unlocks'[r] = 0
        /\ (kind'[r] \in LockKinds /\ ~Holding(r)'
               /\ outcome'[r] \notin {"none", "rejected", "conflict"})
              => unlocks'[r] = 1]_vars

\* C4: a reconciliation task that sees a failed transaction (non-zero exit
\* code) or an await error leaves every field of the persisted record as it
\* was; stated on the fields the User struct declares.
C4_FailedWritesNothing ==
    [][\A r \in Reqs :
        (Reconciles(r) /\ outcome'[r] \in {"failed", "unconfirmed"})
            => Declared(Record(Subject(r)))' = Declared(Record(Subject(r)))]_vars

\* C5: when the success response is sent the synchronous path has made no
\* release call and the lock flag of the request is still true.
C5_RespondsWhileLocked ==
    [][\A r \in Reqs :
        Responds(r) =>
            /\ unlocks'[r] = 0
            /\ Flag(Subject(r), LockOf(kind[r]))' = "true"]_vars

\* C6: once an allocation was confirmed, the stored last-allocation timestamp
\* and the free allocation lock stay as they are in every step that is not a
\* step of an allocation request.
C6_ConfirmedAllocationPersists ==
    [][(/\ \E r \in Reqs : kind[r] = "verify" /\ pc[r] = "done"
                             /\ outcome[r] = "confirmed"
        /\ Record("u1").MostRecentAllocation # ZeroTime
        /\ \A q \in Reqs : kind'[q] = "verify" => pc'[q] = pc[q])
       => /\ Record("u1")'.MostRecentAllocation = Record("u1").MostRecentAllocation
          /\ Flag("u1", UserLock_Verifier) # "true"
                => Flag("u1", UserLock_Verifier)' # "true"]_vars

\* this step is the faucet goroutine of r seeing its message succeed
FaucetConfirms(r) == kind[r] = "faucet" /\ Reconciles(r) /\ outcome'[r] = "confirmed"

\* C7 as stated: a confirmed faucet grant writes a last-grant timestamp equal
\* to the confirmation time, the cid for a miner grant, the received flag for
\* a non-miner grant.
C7_TimestampAlwaysWritten ==
    [][\A r \in Reqs :
        FaucetConfirms(r) =>
            LET saved == Record(Subject(r))'
            IN /\ \/ saved.MostRecentMinerFaucetGrant = now
                  \/ saved.MostRecentFaucetGrant = now
               /\ isMiner[r] => saved.MostRecentMinerFaucetGrantCid = CidOf(r)
               /\ ~isMiner[r] => saved.ReceivedNonMinerFaucetGrant]_vars

\* C7 amended: a confirmed faucet grant writes, in one save, for a miner
\* target the miner last-grant timestamp (the confirmation time) and the cid,
\* and for a non-miner target the received flag and no timestamp: both
\* last-grant timestamps are those the request read.
C7_FaucetCreditByTarget ==
    [][\A r \in Reqs :
        FaucetConfirms(r) =>
            LET saved == Record(Subject(r))'
            IN IF isMiner[r]
               THEN /\ saved.MostRecentMinerFaucetGrant = now
                    /\ saved.MostRecentMinerFaucetGrantCid = CidOf(r)
               ELSE /\ saved.ReceivedNonMinerFaucetGrant
                    /\ saved.MostRecentMinerFaucetGrant
                         = snap[r].MostRecentMinerFaucetGrant
                    /\ saved.MostRecentFaucetGrant = snap[r].MostRecentFaucetGrant
                    /\ saved.MostRecentMinerFaucetGrantCid
                         = snap[r].MostRecentMinerFaucetGrantCid]_vars

C7_Witness ==
    /\ Record("u1").ReceivedNonMinerFaucetGrant
    /\ Record("u1").MostRecentMinerFaucetGrantCid \in Reqs
    /\ Record("u1").MostRecentMinerFaucetGrant = now
    /\ \A r \in Reqs : kind[r] = "faucet" /\ outcome[r] = "confirmed"

\* C8: no step lowers a persisted last-grant timestamp; stated on the
\* timestamps the User struct declares.
C8_TimestampsMonotone ==
    [][\A u \in Users :
        /\ Record(u)'.MostRecentAllocation >= Record(u).MostRecentAllocation
        /\ Record(u)'.MostRecentFaucetGrant >= Record(u).MostRecentFaucetGrant]_vars

\* request r is a repeat miner request that has read both power values
PowerRead(r) ==
    /\ kind[r] = "faucet"
    /\ pc[r] \in {"f_send", "wait", "unlock_sync"}
    /\ prevPower[r] \in PowerReadings
    /\ currentPower[r] \in PowerReadings

Greater(p, c) == p[1] > c[1] \/ (p[1] = c[1] /\ p[2] > c[2])
MaxPowerGiB == CHOOSE m \in {p[1] : p \in PowerReadings} :
                   \A p \in PowerReadings : p[1] <= m
\* q = floor((p - c) / 2^30) for p > c, stated on the limbs
IsGiBFloor(q, p, c) ==
    \/ p[2] >= c[2] /\ q = p[1] - c[1]
    \/ p[2] < c[2] /\ q = p[1] - c[1] - 1

\* C9: with priorPower > currentPower the grant of a repeat miner request is
\* max(floor(floor((priorPower - currentPower) / 2^30) / 2), FaucetMinGrant).
C9_GrantIsHalfDeltaGiB ==
    \A r \in Reqs :
        (PowerRead(r) /\ Greater(prevPower[r], currentPower[r])) =>
            \E q \in 0..MaxPowerGiB, g \in 0..MaxPowerGiB :
                /\ IsGiBFloor(q, prevPower[r], currentPower[r])
                /\ 2 * g <= q /\ q < 2 * g + 2
                /\ owed[r] = IF g > FaucetMinGrant THEN g ELSE FaucetMinGrant

C9_Witness ==
    \E r \in Reqs :
        /\ PowerRead(r) /\ pc[r] = "wait"
        /\ prevPower[r] = <<100, 0>> /\ currentPower[r] = <<80, 0>>
        /\ owed[r] = 10

\* C10: with priorPower <= currentPower the repeat miner request does not
\* fail on the delta and the amount sent is FaucetMinGrant.
C10_NonPositiveDeltaGetsMinimum ==
    \A r \in Reqs :
        (PowerRead(r) /\ ~Greater(prevPower[r], currentPower[r])) =>
            /\ outcome[r] \in {"submitted", "submitfailed"}
            /\ owed[r] = FaucetMinGrant

\* request r is a faucet request whose grant size was decided
Quoted(r) ==
    \/ pc[r] = "f_send"
    \/ /\ kind[r] = "faucet"
       /\ pc[r] \in {"wait", "unlock_sync"}
       /\ outcome[r] \in {"submitted", "submitfailed"}

\* the request found a miner target that has requested before
RepeatMiner(r) == isMiner[r] /\ HasRequestedFromFaucetAsMiner(snap[r])

\* C11: for a non-miner target and for a miner that never requested before,
\* the grant is FaucetBaseRate and no power reading is made.
C11_FirstGrantIsBaseRate ==
    \A r \in Reqs :
        (Quoted(r) /\ ~RepeatMiner(r)) =>
            /\ owed[r] = FaucetBaseRate
            /\ prevPower[r] = <<0, 0>>
            /\ currentPower[r] = <<0, 0>>

C11_Witness ==
    \E r1 \in Reqs, r2 \in Reqs :
        /\ Quoted(r1) /\ isMiner[r1] /\ ~HasRequestedFromFaucetAsMiner(snap[r1])
        /\ owed[r1] = FaucetBaseRate
        /\ Quoted(r2) /\ ~isMiner[r2] /\ owed[r2] = FaucetBaseRate

\* request r is an allocation request whose quota was computed
Measured(r) ==
    \/ pc[r] = "v_submit"
    \/ /\ kind[r] = "verify"
       /\ pc[r] \in {"wait", "unlock_sync"}
       /\ outcome[r] \in {"nothingowed", "submitfailed", "submitted"}

\* the capacity a reading stands for: a missing entry counts as 0
CapacityOf(reading) == IF reading.found THEN reading.cap ELSE 0

\* C12: owed = MaxAllowanceBytes - remaining capacity of the target, a missing
\* entry counting as 0; owed <= 0 ends the request as nothingowed with no
\* message pushed and the lock released; owed > 0 pushes an allowance of owed.
C12_AllowanceIsShortfall ==
    \A r \in Reqs :
        /\ Measured(r) =>
            /\ owed[r] = MaxAllowanceBytes - CapacityOf(remaining[r])
            /\ (owed[r] <= 0) <=> (outcome[r] = "nothingowed")
            /\ (outcome[r] = "nothingowed") => (pc[r] = "unlock_sync" /\ sent[r] = Nil)
            /\ (outcome[r] = "submitted") => (sent[r] = owed[r])
        /\ (kind[r] = "verify" /\ pc[r] = "done" /\ outcome[r] = "nothingowed") =>
            unlocks[r] = 1

C12_Witness ==
    \E r1 \in Reqs, r2 \in Reqs :
        /\ Measured(r1) /\ outcome[r1] = "submitted"
        /\ remaining[r1] = [found |-> FALSE, cap |-> 0]
        /\ sent[r1] = MaxAllowanceBytes
        /\ Measured(r2) /\ outcome[r2] = "nothingowed"
        /\ remaining[r2].cap > MaxAllowanceBytes

\* some linked account of user was created at least minAge before t
LinkedFor(user, minAge, t) ==
    \E account \in user.Accounts : t - account.CreatedAt >= minAge

\* the handler of r finishes its eligibility checks on a record it found
ChecksAge(r) ==
    /\ pc[r] \in {"v_get", "f_get"}
    /\ pc'[r] # pc[r]
    /\ outcome'[r] # "notfound"

\* C13: HasAccountOlderThan(minAge) is true exactly when some linked account
\* was created at least minAge ago, for the allocation threshold and the
\* faucet threshold alike: a request is refused as too new exactly when no
\* linked account reaches the threshold its handler passes.
C13_AgeCheckUsesThreshold ==
    [][\A r \in Reqs :
        ChecksAge(r) =>
            LET minAge == IF kind[r] = "verify" THEN VerifierMinAccountAgeDays
                          ELSE FaucetMinAccountAge
            IN (outcome'[r] = "toonew") <=> ~LinkedFor(snap'[r], minAge, now)]_vars

\* the allocation handler of r finishes its checks on an old enough record
ChecksCooldown(r) ==
    /\ pc[r] = "v_get"
    /\ pc'[r] # "v_get"
    /\ outcome'[r] \notin {"notfound", "toonew"}

\* C14: an allocation request is refused for cooldown exactly when
\* now < last allocation + 30 days (29 days ago refused, 30 and 31 allowed),
\* and a refused request pushes no message.
C14_CooldownIsThirtyDays ==
    [][\A r \in Reqs :
        ChecksCooldown(r) =>
            /\ (outcome'[r] = "cooldown") <=>
                   (now < snap'[r].MostRecentAllocation + AllocationCooldownDays)
            /\ (outcome'[r] = "cooldown") =>
                   (pc'[r] = "unlock_sync" /\ sent'[r] = Nil /\ owed'[r] = Nil)]_vars

\* an allocation confirmed exactly 30 days before the request is allowed
C14_Witness ==
    \E r \in Reqs :
        /\ kind[r] = "verify" /\ pc[r] = "wait" /\ outcome[r] = "submitted"
        /\ snap[r].MostRecentAllocation # ZeroTime
        /\ snap[r].MostRecentAllocation + AllocationCooldownDays = now

\* C15: the gas-limit and gas-price estimates are retried, so the call
\* sequence ends in an error at one of them only once the deadline is reached.
C15_EstimationRetried ==
    (callResult = "error" /\ failedAt \in {"gaslimit", "gasprice"}) =>
        CtxDone(elapsed)

\* the last call retry made of the wrapped function succeeded
LastCallSucceeded == tries > 0 /\ err = "nil"

\* C16: retry returns nil only after a call of the wrapped function
\* succeeded, and returns a non-nil error when it stops at the deadline,
\* also when the deadline had passed before the first attempt.
C16_RetryReturnsLastError ==
    (rpos = "out") =>
        /\ (ret = "nil") => LastCallSucceeded
        /\ ~LastCallSucceeded => (ret # "nil")

\* C17: unlockUser sets the flag to false only when it is true; on a false or
\* absent flag the call fails its condition and changes nothing in the store,
\* and the handler or goroutine goes on as after a successful release.
C17_ReleaseIsConditional ==
    [][\A r \in Reqs :
        Releases(r) =>
            LET id == Subject(r)
                attr == LockAttr(LockOf(kind[r]))
            IN /\ (db[id].flags[attr] = "true") =>
                      (db' = [db EXCEPT ![id].flags[attr] = "false"])
               /\ (db[id].flags[attr] # "true") => (db' = db)
               /\ outcome'[r] = outcome[r]
               /\ unlocks'[r] = unlocks[r] + 1]_vars

\* a goroutine released after its save had erased the flag: the release failed
\* its condition and the request ended as any other
C17_Witness ==
    \E r \in Reqs :
        /\ pc[r] = "done" /\ outcome[r] = "confirmed" /\ unlocks[r] = 1
        /\ Flag(Subject(r), LockOf(kind[r])) = "absent"
        /\ \A q \in Reqs \ {r} : pc[q] = "idle"

\* the faucet handler of r leaves its checks having found a miner that
\* requested before and whose last miner grant is less than FaucetRateLimit old
LimitedRepeat(r) ==
    /\ pc[r] = "f_miner"
    /\ pc'[r] # "f_miner"
    /\ isMiner'[r]
    /\ HasRequestedFromFaucetAsMiner(snap'[r])
    /\ now < snap'[r].MostRecentMinerFaucetGrant + FaucetRateLimit

\* C18: a repeat miner request inside the rate limit is refused: no power
\* reading makes a grant, no message is pushed, no goroutine is started, and
\* the faucet lock is released before the handler returns.
C18_RateLimitedIsRefused ==
    [][\A r \in Reqs :
        /\ LimitedRepeat(r) =>
            /\ outcome'[r] = "ratelimited"
            /\ pc'[r] = "unlock_sync"
            /\ owed'[r] = Nil /\ sent'[r] = Nil
            /\ prevPower'[r] = <<0, 0>> /\ currentPower'[r] = <<0, 0>>
        /\ (outcome[r] = "ratelimited" /\ pc'[r] # pc[r]) =>
            (pc[r] = "unlock_sync" /\ pc'[r] = "done" /\ unlocks'[r] = 1)]_vars

C18_Witness ==
    \E r \in Reqs :
        /\ kind[r] = "faucet" /\ outcome[r] = "ratelimited"
        /\ pc[r] = "done" /\ unlocks[r] = 1
        /\ now < Record(Subject(r)).MostRecentMinerFaucetGrant + FaucetRateLimit

\* C19: the flag of a (subject, lock) changes only in a lockUser or unlockUser
\* call on that subject and lock; a save by a goroutine or by account linking
\* and calls on the other lock leave it as it was.
C19_FlagChangesOnlyByItsLock ==
    [][\A id \in Users, k \in LockKinds :
        (Flag(id, LockOf(k))' # Flag(id, LockOf(k))) =>
            \E r \in Reqs :
                /\ Subject(r) = id
                /\ kind'[r] = k
                /\ Acquires(r) \/ Releases(r)]_vars

\* in this step request r takes a reading: the subject's record, the
\* remaining capacity of the target, or a network power
Reads(r) ==
    \/ snap'[r] \notin {snap[r], ZeroUser}
    \/ remaining'[r] \notin {remaining[r], NoReading}
    \/ prevPower'[r] \notin {prevPower[r], <<0, 0>>}
    \/ currentPower'[r] \notin {currentPower[r], <<0, 0>>}

\* C20: in an allocation or faucet request the record read and the external
\* readings the quota is computed from are made after the request's lockUser
\* call returned nil and before its unlockUser call.
C20_ReadsWhileHolding ==
    [][\A r \in Reqs :
        (kind'[r] \in LockKinds /\ Reads(r)) =>
            /\ pc[r] \in HandlerSteps
            /\ Holding(r)
            /\ unlocks[r] = 0]_vars

C20_Witness ==
    \E r \in Reqs :
        /\ kind[r] = "faucet" /\ Holding(r) /\ unlocks[r] = 0
        /\ snap[r] # ZeroUser
        /\ prevPower[r] # <<0, 0>> /\ currentPower[r] # <<0, 0>>
        /\ owed[r] # Nil

\* request r has read nothing, computed nothing and pushed nothing
Untouched(r) ==
    /\ snap[r] = ZeroUser
    /\ owed[r] = Nil
    /\ remaining[r] = NoReading
    /\ sent[r] = Nil
    /\ prevPower[r] = <<0, 0>> /\ currentPower[r] = <<0, 0>>
    /\ unlocks[r] = 0

\* C21: a request whose lockUser call returns an error ends at once with that
\* error: it changes nothing in the store (the holder's flag stays true), makes
\* no unlockUser call, reads no quota, pushes no message and starts no
\* goroutine, and takes no step afterwards.
C21_ConflictHasNoEffect ==
    [][\A r \in Reqs :
        /\ (pc[r] = "idle" /\ outcome'[r] = "conflict") =>
            /\ pc'[r] = "done"
            /\ db' = db
            /\ Untouched(r)'
        /\ (outcome[r] = "conflict") =>
            /\ pc'[r] = pc[r] /\ outcome'[r] = outcome[r]
            /\ Untouched(r)']_vars

\* a refused request next to a request that holds the same lock
C21_Witness ==
    \E r \in Reqs, h \in Reqs :
        /\ pc[r] = "done" /\ outcome[r] = "conflict" /\ unlocks[r] = 0
        /\ kind[h] = kind[r] /\ Holding(h) /\ unlocks[h] = 0
        /\ Flag(Subject(h), LockOf(kind[h])) = "true"

\* the outcomes a request can have once its goroutine was started
TaskOutcomes == {"submitted", "confirmed", "failed", "unconfirmed"}

\* C22: a request makes at most one submit call and starts at most one
\* goroutine, and starts it only after the submit call succeeded; a failed
\* submit is not repeated, starts no goroutine, and the lock is released by the
\* handler's own deferred unlock.
C22_OneSubmitOneTask ==
    \A r \in Reqs :
        /\ submits[r] <= 1
        /\ tasks[r] <= submits[r]
        /\ (tasks[r] = 1) <=> (outcome[r] \in TaskOutcomes)
        /\ (outcome[r] = "submitfailed") =>
            /\ submits[r] = 1 /\ tasks[r] = 0
            /\ pc[r] \in {"unlock_sync", "done"}
            /\ (pc[r] = "done") => (unlocks[r] = 1)

C22_Witness ==
    \E r1 \in Reqs, r2 \in Reqs :
        /\ pc[r1] = "done" /\ outcome[r1] = "submitfailed"
        /\ submits[r1] = 1 /\ tasks[r1] = 0 /\ unlocks[r1] = 1
        /\ pc[r2] = "done" /\ outcome[r2] = "confirmed"
        /\ submits[r2] = 1 /\ tasks[r2] = 1

\* C23: with the process running and every node call returning or cut off at
\* its deadline, every request that acquired its lock goes on to make its
\* unlockUser call, on the synchronous failure paths and when the message is
\* never confirmed inside the goroutine's window.
C23_HolderEventuallyReleases ==
    \A r \in Reqs : Holding(r) ~> (pc[r] = "done" /\ unlocks[r] = 1)

\* a goroutine whose wait ran into its deadline has released
C23_Witness ==
    \E r \in Reqs :
        /\ pc[r] = "done" /\ unlocks[r] = 1 /\ outcome[r] = "unconfirmed"
        /\ callResult = "error" /\ failedAt = "statewait"
        /\ CtxDone(elapsed)

\* every request made so far is an allocation or a faucet request
OnlyGrantRequests == \A q \in Reqs : kind[q] \in LockKinds \cup {"none"}

\* C24: a subject gets at most one confirmed non-miner faucet grant: once the
\* received flag is stored as true it stays true, and from then on no
\* non-miner faucet request of the subject is confirmed.
C24_NonMinerGrantOnce ==
    [][\A id \in Users :
        (OnlyGrantRequests' /\ Record(id).ReceivedNonMinerFaucetGrant) =>
            /\ Record(id)'.ReceivedNonMinerFaucetGrant
            /\ \A r \in Reqs :
                ~(Subject(r) = id /\ FaucetConfirms(r) /\ ~isMiner[r])]_vars

\* C25: the save of a goroutine discards no update another task made after
\* the goroutine's request read the record: the stored linked accounts are all
\* kept, and every field the goroutine does not write keeps its stored value;
\* stated on the fields the User struct declares.
C25_SaveKeepsOtherUpdates ==
    [][\A r \in Reqs :
        Reconciles(r) =>
            LET stored == Record(Subject(r))
                saved == Record(Subject(r))'
            IN /\ stored.Accounts \subseteq saved.Accounts
               /\ saved.MostRecentFaucetGrant = stored.MostRecentFaucetGrant
               /\ saved.FilecoinAddress = stored.FilecoinAddress
               /\ kind[r] = "faucet" =>
                      saved.MostRecentAllocation = stored.MostRecentAllocation]_vars

====
